---------------------------- MODULE Spec2Model ----------------------------
(***************************************************************************)
(* A model of quirs, the safe Rust wrapper around the quirc QR decoder.    *)
(*                                                                         *)
(* The engine (quirc) is a black box reached through its FFI functions;    *)
(* what it returns is chosen nondeterministically.  Integer widths are     *)
(* scaled down (NarrowBits, WideBits) so that every value fits the model   *)
(* checker's integers; the three relative widths of usize and c_int        *)
(* (narrower, equal, wider) are all present.  u8 keeps its real width.     *)
(***************************************************************************)
EXTENDS Integers, Sequences, FiniteSets, TLC

VARIABLES
    usize_bits,       \* width of usize on the platform
    int_bits,         \* width of c_int on the platform
    overflow_checks,  \* TRUE: debug build (overflow panics); FALSE: release (wraps)
    image_in,         \* arguments of Image::new: [len, x, y]
    image_out,        \* what Image::new returned
    raw_code,         \* a quirc_code record as the engine filled it
    qrcode,           \* what QrCode::from_raw returned for raw_code
    code_out,         \* the last call on the QrCode and what it returned
    raw_data,         \* a quirc_data record as the engine filled it
    raw_other,        \* a second quirc_data record, compared with the first
    info_out,         \* the last call on the Info wrapping raw_data, and its result
    decoder,          \* the Decoder: "unborn", "alloc_failed", "live" or "dropped"
    destroy_calls,    \* how many times quirc_destroy was called on its handle
    engine,           \* the engine behind the handle: [count, scans, stable]
    calls,            \* the engine calls the last decode_image made, in order
    iters,            \* the iterators decode_image returned, by identity
    last,             \* the last Decoder or Iter call and what it returned
    panicked,         \* a panic is unwinding the caller
    conv_in,          \* the integer handed to a conversion of util.rs
    conv_out          \* the conversion called on it, and its result

platformVars == <<usize_bits, int_bits, overflow_checks>>
imageVars == <<image_in, image_out>>
codeVars == <<raw_code, qrcode, code_out>>
infoVars == <<raw_data, raw_other, info_out>>
decoderVars == <<decoder, destroy_calls, engine, calls, iters, last, panicked>>

utilVars == <<conv_in, conv_out>>

vars == <<platformVars, imageVars, codeVars, infoVars, decoderVars, utilVars>>

----------------------------------------------------------------------------
(* Bounds of the model. *)

NarrowBits == 16
WideBits == 20

----------------------------------------------------------------------------
(* Results: Ok(v), Err(e), or a panic. *)

Ok(v) == [tag |-> "Ok", val |-> v]
Err(e) == [tag |-> "Err", val |-> e]
Panic(m) == [tag |-> "Panic", val |-> m]
Pending == [tag |-> "Pending", val |-> 0]

----------------------------------------------------------------------------
(* Fixed-width integers. *)

Pow2(n) == 2^n

USIZE_MAX == Pow2(usize_bits) - 1
INT_MAX == Pow2(int_bits - 1) - 1
INT_MIN == 0 - Pow2(int_bits - 1)

\* size_of::<T>() is compared only between usize and c_int; it is monotone in
\* the width.
SizeOfUsize == usize_bits
SizeOfInt == int_bits

\* `n as usize`: two's complement reduction modulo 2^usize_bits.
AsUsize(n) == n % Pow2(usize_bits)

\* `n as c_int`: reduction modulo 2^int_bits, read as a signed value.
AsInt(n) ==
    LET m == n % Pow2(int_bits)
    IN  IF m > INT_MAX THEN m - Pow2(int_bits) ELSE m

\* `n as u8`
AsU8(n) == n % 256

\* (a * b) mod m without forming a * b.
RECURSIVE MulMod(_, _, _)
MulMod(a, b, m) ==
    IF b = 0 THEN 0
    ELSE LET half == MulMod(a, b \div 2, m)
             twice == (2 * half) % m
             odd == IF b % 2 = 1 THEN a % m ELSE 0
         IN  (twice + odd) % m

\* Whether the mathematical product a * b exceeds USIZE_MAX.
MulOverflows(a, b) == a # 0 /\ b > USIZE_MAX \div a

\* usize `a * b`: panics on overflow when overflow checks are on, wraps otherwise.
UsizeMul(a, b) ==
    IF MulOverflows(a, b)
    THEN IF overflow_checks THEN Panic("attempt to multiply with overflow")
         ELSE Ok(MulMod(a, b, Pow2(usize_bits)))
    ELSE Ok(a * b)

\* usize `a + b`, with a + b < 2^31.
UsizeAdd(a, b) ==
    IF a + b > USIZE_MAX
    THEN IF overflow_checks THEN Panic("attempt to add with overflow")
         ELSE Ok((a + b) % Pow2(usize_bits))
    ELSE Ok(a + b)

----------------------------------------------------------------------------
(* util.rs *)

\* usize_to_int as the bare cast.
usize_to_int_Cast(n) == Ok(AsInt(n))

usize_to_int(n) ==
    IF SizeOfUsize < SizeOfInt THEN Ok(AsInt(n))
    ELSE IF n <= AsUsize(INT_MAX) THEN Ok(AsInt(n))
    ELSE Err("IntOverflow")

int_to_usize(n) ==
    IF n < 0 THEN Err("IntOverflow")
    ELSE IF SizeOfInt <= SizeOfUsize THEN Ok(AsUsize(n))
    ELSE IF n <= AsInt(USIZE_MAX) THEN Ok(AsUsize(n))
    ELSE Err("IntOverflow")

----------------------------------------------------------------------------
(* The platform: the widths of usize and c_int, and the build profile. *)

Platforms == { <<NarrowBits, WideBits>>, <<NarrowBits, NarrowBits>>,
               <<WideBits, NarrowBits>> }

PlatformInit ==
    /\ \E p \in Platforms : usize_bits = p[1] /\ int_bits = p[2]
    /\ overflow_checks \in BOOLEAN

PlatformUnchanged == UNCHANGED platformVars

----------------------------------------------------------------------------
(* util.rs: the conversions called on their own *)

\* The integers tried: those next to 0 and next to the two maxima, as far as
\* the argument's type holds them.
ConvSamples == (-2..4) \cup (INT_MAX - 2 .. INT_MAX + 2) \cup (USIZE_MAX - 2 .. USIZE_MAX + 2)
UsizeSamples == ConvSamples \cap (0..USIZE_MAX)
IntSamples == (ConvSamples \cup {INT_MIN}) \cap (INT_MIN..INT_MAX)

NoConv == [op |-> "none", ret |-> Pending]

UtilInit ==
    /\ conv_in \in ([type : {"usize"}, n : UsizeSamples] \cup [type : {"c_int"}, n : IntSamples])
    /\ conv_out = NoConv

UtilIdleInit ==
    /\ conv_in = [type |-> "usize", n |-> 0]
    /\ conv_out = NoConv

UtilFrame ==
    /\ conv_out = NoConv
    /\ UNCHANGED conv_in
    /\ PlatformUnchanged
    /\ UNCHANGED <<imageVars, codeVars, infoVars, decoderVars>>

UsizeToInt ==
    /\ conv_in.type = "usize"
    /\ conv_out' = [op |-> "usize_to_int", ret |-> usize_to_int(conv_in.n)]
    /\ UtilFrame

IntToUsize ==
    /\ conv_in.type = "c_int"
    /\ conv_out' = [op |-> "int_to_usize", ret |-> int_to_usize(conv_in.n)]
    /\ UtilFrame

\* usize_to_int(n).and_then(int_to_usize)
UsizeToIntAndBack ==
    /\ conv_in.type = "usize"
    /\ LET there == usize_to_int(conv_in.n)
       IN  conv_out' = [op |-> "usize_to_int_and_back",
                        ret |-> IF there.tag = "Ok" THEN int_to_usize(there.val)
                                ELSE there]
    /\ UtilFrame

\* int_to_usize(n).and_then(usize_to_int)
IntToUsizeAndBack ==
    /\ conv_in.type = "c_int"
    /\ LET there == int_to_usize(conv_in.n)
       IN  conv_out' = [op |-> "int_to_usize_and_back",
                        ret |-> IF there.tag = "Ok" THEN usize_to_int(there.val)
                                ELSE there]
    /\ UtilFrame

----------------------------------------------------------------------------
(* geom.rs: Image *)

\* Image::new(data, size), the data given by its length.
Image_new(len, x, y) ==
    LET prod == UsizeMul(x, y)
    IN  IF prod.tag = "Panic" THEN prod
        ELSE IF len = prod.val THEN Ok([len |-> len, x |-> x, y |-> y])
        ELSE Err("SizeMismatch")

\* Arguments tried: small sizes, and sizes whose product does not fit usize.
ImageDims == {0, 1, 2, 3, Pow2(usize_bits - 1), USIZE_MAX}
ImageLens == {0, 1, 2, 3, 4, 6, 9, USIZE_MAX}

ImageIdle == [len |-> 0, x |-> 0, y |-> 0]

ImageInit ==
    /\ image_in \in [len : ImageLens, x : ImageDims, y : ImageDims]
    /\ image_out = Pending

ImageNew ==
    /\ image_out = Pending
    /\ image_out' = Image_new(image_in.len, image_in.x, image_in.y)
    /\ UNCHANGED image_in
    /\ PlatformUnchanged
    /\ UNCHANGED <<codeVars, infoVars, decoderVars, utilVars>>

ImageIdleInit == image_in = ImageIdle /\ image_out = Pending


----------------------------------------------------------------------------
(* quirc_sys.rs: constants of the engine's interface *)

QUIRC_MAX_BITMAP == 3917
QUIRC_MAX_PAYLOAD == 8896

QUIRC_SUCCESS == 0
QUIRC_ERROR_INVALID_GRID_SIZE == 1
QUIRC_ERROR_INVALID_VERSION == 2
QUIRC_ERROR_FORMAT_ECC == 3
QUIRC_ERROR_DATA_ECC == 4
QUIRC_ERROR_UNKNOWN_DATA_TYPE == 5
QUIRC_ERROR_DATA_OVERFLOW == 6
QUIRC_ERROR_DATA_UNDERFLOW == 7

\* The values that are enumerants of quirc_decode_error_t.
quirc_decode_error_t == QUIRC_SUCCESS .. QUIRC_ERROR_DATA_UNDERFLOW

\* quirc_data::default()
quirc_data_default ==
    [version |-> 0, ecc_level |-> 0, mask |-> 0, data_type |-> 0,
     payload |-> [head |-> 0, cut |-> 0, tail |-> 0], payload_len |-> 0, eci |-> 0]

\* Byte k of a fixed-capacity buffer whose content is pattern p; pattern 0 is
\* the zeroed buffer of Default.
BufferByte(p, k) == IF p = 0 THEN 0 ELSE (k * 37 + p) % 256

\* Byte k of a quirc_data payload array: pattern head below the offset cut,
\* pattern tail from it on.
PayloadByte(buf, k) ==
    IF k < buf.cut THEN BufferByte(buf.head, k) ELSE BufferByte(buf.tail, k)

----------------------------------------------------------------------------
(* error.rs *)

DecodingErrorKinds ==
    {"Unknown", "InvalidGridSize", "InvalidVersion", "FormatEcc", "DataEcc",
     "UnknownDataType", "DataOverflow", "DataUnderflow"}

\* From<quirc_decode_error_t> for DecodingErrorKind, on a valid enumerant.
DecodingErrorKind_from(code) ==
    CASE code = QUIRC_ERROR_INVALID_GRID_SIZE -> "InvalidGridSize"
      [] code = QUIRC_ERROR_INVALID_VERSION -> "InvalidVersion"
      [] code = QUIRC_ERROR_FORMAT_ECC -> "FormatEcc"
      [] code = QUIRC_ERROR_DATA_ECC -> "DataEcc"
      [] code = QUIRC_ERROR_UNKNOWN_DATA_TYPE -> "UnknownDataType"
      [] code = QUIRC_ERROR_DATA_OVERFLOW -> "DataOverflow"
      [] code = QUIRC_ERROR_DATA_UNDERFLOW -> "DataUnderflow"
      [] OTHER -> "Unknown"

\* From<quirc_decode_error_t> for Error
Error_from(code) == [kind |-> "DecodingFailed", reason |-> DecodingErrorKind_from(code)]

----------------------------------------------------------------------------
(* geom.rs: Vec2D and QrCode *)

None == [some |-> FALSE, v |-> FALSE]
Some(b) == [some |-> TRUE, v |-> b]

Vec2D_from_raw(p) ==
    LET x == int_to_usize(p.x)
        y == int_to_usize(p.y)
    IN  IF x.tag = "Err" THEN x
        ELSE IF y.tag = "Err" THEN y
        ELSE Ok([x |-> x.val, y |-> y.val])

\* QrCode::from_raw: the size, then the corners 0..3, stopping at the first error.
QrCode_from_raw(raw) ==
    LET size == int_to_usize(raw.size)
        bad == {i \in 1..4 : Vec2D_from_raw(raw.corners[i]).tag = "Err"}
    IN  IF size.tag = "Err" THEN size
        ELSE IF bad # {}
             THEN Vec2D_from_raw(raw.corners[CHOOSE i \in bad : \A j \in bad : i <= j])
        ELSE Ok(raw)

\* Result::expect
Expect(r, msg) == IF r.tag = "Ok" THEN r ELSE Panic(msg)

\* corner_at(i), i in 0..3 (corners[i + 1] here)
QrCode_corner_at(code, i) ==
    Expect(Vec2D_from_raw(code.corners[i + 1]), "invalid corner coordinates")

QrCode_size(code) ==
    Expect(int_to_usize(code.size), "code size under- or overflows usize")

\* bitmap(): the slice cell_bitmap[..num_bytes], given by its length.
QrCode_bitmap(code) ==
    LET size == QrCode_size(code)
        num_bits == UsizeMul(size.val, size.val)
        sum == UsizeAdd(num_bits.val, 7)
        num_bytes == sum.val \div 8
    IN  IF size.tag = "Panic" THEN size
        ELSE IF num_bits.tag = "Panic" THEN num_bits
        ELSE IF sum.tag = "Panic" THEN sum
        ELSE IF num_bytes > QUIRC_MAX_BITMAP
             THEN Panic("range end index out of range for slice")
        ELSE Ok([start |-> 0, len |-> num_bytes])

\* get(coord)
QrCode_get(code, x, y) ==
    LET size == QrCode_size(code)
        row == UsizeMul(y, size.val)
        i == UsizeAdd(row.val, x)
        byte == BufferByte(code.cell_bitmap, i.val \div 8)
        bit == (byte \div Pow2(i.val % 8)) % 2
    IN  IF size.tag = "Panic" THEN size
        ELSE IF x < size.val /\ y < size.val
             THEN IF row.tag = "Panic" THEN row
                  ELSE IF i.tag = "Panic" THEN i
                  ELSE IF i.val \div 8 >= QUIRC_MAX_BITMAP
                       THEN Panic("index out of bounds")
                  ELSE Ok(Some(bit # 0))
        ELSE Ok(None)

\* bit_at(coord)
QrCode_bit_at(code, x, y) ==
    LET got == QrCode_get(code, x, y)
    IN  IF got.tag = "Panic" THEN got
        ELSE IF got.val.some THEN Ok(got.val.v)
        ELSE Panic("out of bounds for bitmap")

\* What decode() can return when quirc_decode() returned the integer c.  The
\* return type is declared as the Rust enum quirc_decode_error_t: an integer
\* that is no enumerant is an invalid value of that type, which is undefined
\* behaviour, so the comparison and the match may then go any way.
QrCode_decode(c, data) ==
    IF c \in quirc_decode_error_t
    THEN { IF c = QUIRC_SUCCESS THEN Ok(data) ELSE Err(Error_from(c)) }
    ELSE {Ok(data)}
         \cup {Err([kind |-> "DecodingFailed", reason |-> k]) : k \in DecodingErrorKinds}
         \cup {Panic("undefined behaviour")}

\* Raw records tried: sizes around the limits, and corners that are all
\* representable or have one coordinate that is not.
RawSizes == {-1, 0, 1, 2, 3, 21, 177, 178, INT_MAX}
GoodPoint == [x |-> 3, y |-> 4]
BadPoints == { [x |-> -1, y |-> 0], [x |-> 0, y |-> -1], [x |-> INT_MAX, y |-> 0] }
RawCorners ==
    { <<GoodPoint, GoodPoint, GoodPoint, GoodPoint>> }
    \cup { [ [k \in 1..4 |-> GoodPoint] EXCEPT ![i] = b ] : i \in 1..4, b \in BadPoints }
BitmapPatterns == {0, 11}

RawCodes == [size : RawSizes, corners : RawCorners, cell_bitmap : BitmapPatterns]

\* quirc_code::default()
quirc_code_default ==
    [size |-> 0, corners |-> [k \in 1..4 |-> [x |-> 0, y |-> 0]], cell_bitmap |-> 0]

\* Coordinates tried on a code of the given raw size.
Coords(size) == {0, 1, USIZE_MAX} \cup ({size - 1, size} \cap (0..USIZE_MAX))

\* The integers quirc_decode() is taken to return.
EngineDecodeCodes == -1 .. 8

NoCall == [op |-> "none", x |-> 0, y |-> 0, ret |-> Pending]

CodeInit ==
    /\ raw_code \in RawCodes
    /\ qrcode = Pending
    /\ code_out = NoCall

CodeIdleInit ==
    /\ raw_code = quirc_code_default
    /\ qrcode = Pending
    /\ code_out = NoCall

\* A validated code on which no call has been recorded yet.  The accessors are
\* pure (&self, no state written), so one call per code shows every result.
CodeReady == qrcode.tag = "Ok" /\ code_out = NoCall

CodeFrame ==
    /\ UNCHANGED <<raw_code, qrcode>>
    /\ PlatformUnchanged
    /\ UNCHANGED <<imageVars, infoVars, decoderVars, utilVars>>

FromRaw ==
    /\ qrcode = Pending
    /\ qrcode' = QrCode_from_raw(raw_code)
    /\ UNCHANGED <<raw_code, code_out>>
    /\ PlatformUnchanged
    /\ UNCHANGED <<imageVars, infoVars, decoderVars, utilVars>>

CornerAt ==
    /\ CodeReady
    /\ \E i \in 0..3 :
        code_out' = [op |-> "corner_at", x |-> i, y |-> 0,
                     ret |-> QrCode_corner_at(qrcode.val, i)]
    /\ CodeFrame

Size ==
    /\ CodeReady
    /\ code_out' = [op |-> "size", x |-> 0, y |-> 0, ret |-> QrCode_size(qrcode.val)]
    /\ CodeFrame

Bitmap ==
    /\ CodeReady
    /\ code_out' = [op |-> "bitmap", x |-> 0, y |-> 0, ret |-> QrCode_bitmap(qrcode.val)]
    /\ CodeFrame

Get ==
    /\ CodeReady
    /\ \E x \in Coords(qrcode.val.size), y \in Coords(qrcode.val.size) :
        code_out' = [op |-> "get", x |-> x, y |-> y,
                     ret |-> QrCode_get(qrcode.val, x, y)]
    /\ CodeFrame

BitAt ==
    /\ CodeReady
    /\ \E x \in Coords(qrcode.val.size), y \in Coords(qrcode.val.size) :
        code_out' = [op |-> "bit_at", x |-> x, y |-> y,
                     ret |-> QrCode_bit_at(qrcode.val, x, y)]
    /\ CodeFrame

\* decode(): x records the integer the engine returned.
Decode ==
    /\ CodeReady
    /\ \E c \in EngineDecodeCodes :
        \E r \in QrCode_decode(c, quirc_data_default) :
            code_out' = [op |-> "decode", x |-> c, y |-> 0, ret |-> r]
    /\ CodeFrame

----------------------------------------------------------------------------
(* info.rs: Info *)

QUIRC_ECC_LEVEL_M == 0
QUIRC_ECC_LEVEL_L == 1
QUIRC_ECC_LEVEL_H == 2
QUIRC_ECC_LEVEL_Q == 3

QUIRC_DATA_TYPE_NUMERIC == 1
QUIRC_DATA_TYPE_ALPHA == 2
QUIRC_DATA_TYPE_BYTE == 4
QUIRC_DATA_TYPE_KANJI == 8

Min(a, b) == IF a <= b THEN a ELSE b
Max(a, b) == IF a >= b THEN a ELSE b

Info_from_raw(raw) == raw

\* version() narrowing to u8 before clamping instead of after.
Info_version_NarrowFirst(info) == Max(1, Min(AsU8(info.version), 40))

\* version(): max(1, min(version, 40)) as u8
Info_version(info) == AsU8(Max(1, Min(info.version, 40)))

\* mask_id(): max(0, min(mask, 7)) as u8
Info_mask_id(info) == AsU8(Max(0, Min(info.mask, 7)))

\* eci(): max(0, min(eci, 30)) as u8, eci being a u32
Info_eci(info) == AsU8(Max(0, Min(info.eci, 30)))

Info_ecc_level(info) ==
    LET ecc == info.ecc_level
    IN  IF ecc = QUIRC_ECC_LEVEL_L THEN "L"
        ELSE IF ecc = QUIRC_ECC_LEVEL_M THEN "M"
        ELSE IF ecc = QUIRC_ECC_LEVEL_Q THEN "Q"
        ELSE IF ecc = QUIRC_ECC_LEVEL_H THEN "H"
        ELSE "L"

Info_data_type(info) ==
    LET dtype == info.data_type
    IN  IF dtype = QUIRC_DATA_TYPE_NUMERIC THEN "Numeric"
        ELSE IF dtype = QUIRC_DATA_TYPE_ALPHA THEN "Alphanumeric"
        ELSE IF dtype = QUIRC_DATA_TYPE_BYTE THEN "Byte"
        ELSE IF dtype = QUIRC_DATA_TYPE_KANJI THEN "Kanji"
        ELSE "Byte"

\* payload(): len = max(0, min(payload_len as usize, QUIRC_MAX_PAYLOAD)), the
\* cast being to the type of QUIRC_MAX_PAYLOAD; the slice payload[..len] is
\* given by its start and length.
Info_payload(info) ==
    LET len == Max(0, Min(AsUsize(info.payload_len), QUIRC_MAX_PAYLOAD))
    IN  [start |-> 0, len |-> len]

\* Raw records tried: each scalar below, inside and above its range.
RawVersions == {INT_MIN, -1, 0, 1, 40, 41, 297, INT_MAX}
RawMasks == {-1, 0, 7, 8, 263, INT_MAX}
RawEcis == {0, 30, 31, 286, 2147483647}
RawPayloadLens == {INT_MIN, -1, 0, 1, QUIRC_MAX_PAYLOAD, QUIRC_MAX_PAYLOAD + 1, INT_MAX}

RawDatas ==
    [version : RawVersions, ecc_level : {0}, mask : RawMasks, data_type : {0},
     payload : {quirc_data_default.payload}, payload_len : RawPayloadLens,
     eci : RawEcis]

NoInfoCall == [op |-> "none", ret |-> 0]

InfoInit ==
    /\ raw_data \in RawDatas
    /\ raw_other = quirc_data_default
    /\ info_out = NoInfoCall

InfoIdleInit ==
    /\ raw_data = quirc_data_default
    /\ raw_other = quirc_data_default
    /\ info_out = NoInfoCall

InfoFrame ==
    /\ info_out = NoInfoCall
    /\ UNCHANGED <<raw_data, raw_other>>
    /\ PlatformUnchanged
    /\ UNCHANGED <<imageVars, codeVars, decoderVars, utilVars>>

Version ==
    /\ info_out' = [op |-> "version", ret |-> Info_version(Info_from_raw(raw_data))]
    /\ InfoFrame

MaskId ==
    /\ info_out' = [op |-> "mask_id", ret |-> Info_mask_id(Info_from_raw(raw_data))]
    /\ InfoFrame

Eci ==
    /\ info_out' = [op |-> "eci", ret |-> Info_eci(Info_from_raw(raw_data))]
    /\ InfoFrame

EccLevel ==
    /\ info_out' = [op |-> "ecc_level", ret |-> Info_ecc_level(Info_from_raw(raw_data))]
    /\ InfoFrame

DataType ==
    /\ info_out' = [op |-> "data_type", ret |-> Info_data_type(Info_from_raw(raw_data))]
    /\ InfoFrame

Payload ==
    /\ info_out' = [op |-> "payload", ret |-> Info_payload(Info_from_raw(raw_data))]
    /\ InfoFrame

\* == on two byte slices: the same length and the same byte at every offset.
Slice_eq(bufA, sliceA, bufB, sliceB) ==
    /\ sliceA.len = sliceB.len
    /\ \A k \in 0..(sliceA.len - 1) :
           PayloadByte(bufA, sliceA.start + k) = PayloadByte(bufB, sliceB.start + k)

\* Equality derived field by field on the raw record.
Info_eq_Derived(self, other) == self = other

\* PartialEq::eq
Info_eq(self, other) ==
    /\ Info_version(self) = Info_version(other)
    /\ Info_mask_id(self) = Info_mask_id(other)
    /\ Info_eci(self) = Info_eci(other)
    /\ Info_ecc_level(self) = Info_ecc_level(other)
    /\ Info_data_type(self) = Info_data_type(other)
    /\ Slice_eq(self.payload, Info_payload(self), other.payload, Info_payload(other))

\* Hash::hash: the values written to the hasher, in order; a slice writes its
\* length and then its bytes.
Info_hash(self) ==
    LET slice == Info_payload(self)
    IN  <<Info_version(self), Info_mask_id(self), Info_eci(self),
          Info_ecc_level(self), Info_data_type(self), slice.len,
          [k \in 1..slice.len |-> PayloadByte(self.payload, slice.start + k - 1)]>>

\* Payload arrays compared: PayloadSame and PayloadTail agree on their first
\* two bytes only, PayloadOther differs from both at offset 0.
PayloadSame == [head |-> 11, cut |-> 2, tail |-> 11]
PayloadTail == [head |-> 11, cut |-> 2, tail |-> 12]
PayloadOther == [head |-> 12, cut |-> 2, tail |-> 11]

\* Pairs of raw records compared: the first from PairFirsts, the second any
\* record of PairSeconds that differs from it in at most two fields, or in at
\* most one when either payload is not a short one. Each field has values with
\* one accessor result and a value with another.
PairFirsts ==
    [version : {0, 1}, ecc_level : {QUIRC_ECC_LEVEL_L}, mask : {7},
     data_type : {QUIRC_DATA_TYPE_BYTE}, payload : {PayloadSame, PayloadTail},
     payload_len : {2, QUIRC_MAX_PAYLOAD}, eci : {30}]

PairSeconds ==
    [version : {0, 1, 2}, ecc_level : {QUIRC_ECC_LEVEL_L, 4, QUIRC_ECC_LEVEL_M},
     mask : {7, 8, 6}, data_type : {QUIRC_DATA_TYPE_BYTE, 0, QUIRC_DATA_TYPE_NUMERIC},
     payload : {PayloadSame, PayloadTail, PayloadOther},
     payload_len : {-1, 2, 3, QUIRC_MAX_PAYLOAD, QUIRC_MAX_PAYLOAD + 1},
     eci : {30, 31, 29}]

FieldsDiffering(a, b) == {f \in DOMAIN a : a[f] # b[f]}

PairCompared(a, b) ==
    Cardinality(FieldsDiffering(a, b))
        <= (IF {a.payload_len, b.payload_len} \subseteq {2, 3} THEN 2 ELSE 1)

InfoPairInit ==
    /\ raw_data \in PairFirsts
    /\ raw_other \in {b \in PairSeconds : PairCompared(raw_data, b)}
    /\ info_out = NoInfoCall

Eq ==
    /\ info_out' = [op |-> "eq",
                    ret |-> Info_eq(Info_from_raw(raw_data), Info_from_raw(raw_other))]
    /\ InfoFrame

\* Both records hashed with the same hasher; ret tells whether the hashes agree.
Hash ==
    /\ info_out' = [op |-> "hash",
                    ret |-> Info_hash(Info_from_raw(raw_data))
                            = Info_hash(Info_from_raw(raw_other))]
    /\ InfoFrame

----------------------------------------------------------------------------
(* decoder.rs: Decoder and Iter *)

\* Option<T> of the iterator's results.
NoItem == [tag |-> "None", val |-> 0]
Item(v) == [tag |-> "Some", val |-> v]

\* c_int `a + b`: panics on overflow when overflow checks are on, wraps otherwise.
IntAdd(a, b) ==
    IF a + b > INT_MAX
    THEN IF overflow_checks THEN Panic("attempt to add with overflow")
         ELSE Ok(AsInt(a + b))
    ELSE Ok(a + b)

\* One engine call: the function, and its two integer arguments where it has
\* them (resize: width and height; copy: the number of bytes copied).
Call(f, a, b) == [f |-> f, a |-> a, b |-> b]

\* decode_image acquiring the scan buffer before it looks at what
\* quirc_resize returned.
Decoder_decode_image_BeginFirst(image, resize_ret, buf_null) ==
    LET width == usize_to_int(image.x)
        height == usize_to_int(image.y)
        resize == Call("quirc_resize", width.val, height.val)
        begin == Call("quirc_begin", 0, 0)
        copy == Call("copy_nonoverlapping", image.len, 0)
        end == Call("quirc_end", 0, 0)
    IN  IF width.tag = "Err" THEN [ret |-> width, calls |-> <<>>]
        ELSE IF height.tag = "Err" THEN [ret |-> height, calls |-> <<>>]
        ELSE IF resize_ret # 0
             THEN [ret |-> Err("AllocFailed"), calls |-> <<resize, begin>>]
        ELSE IF buf_null
             THEN [ret |-> Panic("quirc_begin() returned null pointer"),
                   calls |-> <<resize, begin>>]
        ELSE [ret |-> Ok([index |-> 0]), calls |-> <<resize, begin, copy, end>>]

\* decode_image(image), the engine answering resize_ret to quirc_resize and a
\* null or non-null buffer to quirc_begin: what it returns and the engine calls
\* it makes.
Decoder_decode_image(image, resize_ret, buf_null) ==
    LET width == usize_to_int(image.x)
        height == usize_to_int(image.y)
        resize == Call("quirc_resize", width.val, height.val)
        begin == Call("quirc_begin", 0, 0)
        copy == Call("copy_nonoverlapping", image.len, 0)
        end == Call("quirc_end", 0, 0)
    IN  IF width.tag = "Err" THEN [ret |-> width, calls |-> <<>>]
        ELSE IF height.tag = "Err" THEN [ret |-> height, calls |-> <<>>]
        ELSE IF resize_ret # 0
             THEN [ret |-> Err("AllocFailed"), calls |-> <<resize>>]
        ELSE IF buf_null
             THEN [ret |-> Panic("quirc_begin() returned null pointer"),
                   calls |-> <<resize, begin>>]
        ELSE [ret |-> Ok([index |-> 0]), calls |-> <<resize, begin, copy, end>>]

\* A Drop that releases nothing.
Decoder_drop_Leak(destroyed) == destroyed

\* Drop for Decoder: one more quirc_destroy on the handle.
Decoder_drop(destroyed) == destroyed + 1

\* count_and_index()
Iter_count_and_index(count, index) ==
    IF ~(count >= 0) THEN Panic("quirc_count() was negative")
    ELSE IF ~(index >= 0) THEN Panic("current index was negative")
    ELSE Ok([count |-> count, index |-> index])

\* next() with the bounds check off by one (index <= count).
Iter_next_OffByOne(index, count, raw) ==
    IF count >= 0 /\ index >= 0 /\ index <= count
    THEN [index |-> index + 1, ret |-> Item(QrCode_from_raw(raw)), extracted |-> <<index>>]
    ELSE [index |-> index, ret |-> NoItem, extracted |-> <<>>]

\* next() advancing the index by two.
Iter_next_SkipOne(index, count, raw) ==
    IF count >= 0 /\ index >= 0 /\ index < count
    THEN [index |-> index + 2, ret |-> Item(QrCode_from_raw(raw)), extracted |-> <<index>>]
    ELSE [index |-> index, ret |-> NoItem, extracted |-> <<>>]

\* next(), the engine reporting count and quirc_extract filling raw: the new
\* index, what is returned, and the indices passed to quirc_extract.
Iter_next(index, count, raw) ==
    LET ci == Iter_count_and_index(count, index)
        inc == IntAdd(index, 1)
    IN  IF ci.tag = "Panic" THEN [index |-> index, ret |-> ci, extracted |-> <<>>]
        ELSE IF index < count
             THEN IF inc.tag = "Panic"
                  THEN [index |-> index, ret |-> inc, extracted |-> <<index>>]
                  ELSE [index |-> inc.val, ret |-> Item(QrCode_from_raw(raw)),
                        extracted |-> <<index>>]
        ELSE [index |-> index, ret |-> NoItem, extracted |-> <<>>]

\* size_hint() answering (0, Some(0)) when count - index does not convert.
Iter_size_hint_ZeroExact(index, count) ==
    LET n == int_to_usize(count - index)
    IN  IF ~(count >= 0 /\ index >= 0) THEN Panic("count or index was negative")
        ELSE IF n.tag = "Ok" THEN [tag |-> "Hint", val |-> <<n.val, Item(n.val)>>]
        ELSE [tag |-> "Hint", val |-> <<0, Item(0)>>]

\* size_hint(): (n, Some(n)), or the default (0, None) when count - index does
\* not convert.
Iter_size_hint(index, count) ==
    LET ci == Iter_count_and_index(count, index)
        n == int_to_usize(count - index)
    IN  IF ci.tag = "Panic" THEN ci
        ELSE IF n.tag = "Ok" THEN [tag |-> "Hint", val |-> <<n.val, Item(n.val)>>]
        ELSE [tag |-> "Hint", val |-> <<0, NoItem>>]

\* Bounds: the largest small count the engine reports, and how many iterators
\* one Decoder hands out in a run.
MaxCount == 3
MaxIters == 2

IterIds == 1..MaxIters

\* What quirc_count() may report: small counts, a negative one, and counts
\* at the limits of the two integer types.
EngineCounts ==
    (-1..MaxCount) \cup {INT_MAX} \cup ({USIZE_MAX + 1} \cap (0..INT_MAX))

\* The records quirc_extract() may fill: one that validates, one that does not.
ExtractedCodes ==
    { [quirc_code_default EXCEPT !.size = 21],
      [quirc_code_default EXCEPT !.size = -1] }

\* The arguments of Image::new tried: a 2 x 2 image, an empty image of width
\* 0, and empty data with sides whose product is a power of two not below
\* 2^usize_bits (a side of half the usize range, or both sides its square root).
ImageArgs ==
    { [len |-> 4, x |-> 2, y |-> 2],
      [len |-> 0, x |-> 0, y |-> Pow2(usize_bits - 1)],
      [len |-> 0, x |-> Pow2(usize_bits - 1), y |-> 2],
      [len |-> 0, x |-> 2, y |-> Pow2(usize_bits - 1)],
      [len |-> 0, x |-> Pow2(usize_bits \div 2), y |-> Pow2(usize_bits \div 2)] }

\* The images a caller can hold: whatever Image::new accepted.
Images ==
    { Image_new(a.len, a.x, a.y).val :
        a \in { b \in ImageArgs : Image_new(b.len, b.x, b.y).tag = "Ok" } }

\* The identity of the next iterator handed out.
NextIterId == CHOOSE i \in IterIds :
    iters[i].state = "unborn" /\ \A j \in IterIds : j < i => iters[j].state # "unborn"

NewIter == [state |-> "unborn", index |-> 0, yielded |-> <<>>, ended |-> FALSE]

LiveIters == {i \in IterIds : iters[i].state = "live"}

\* A Decoder that any number of iterators may share.
DecoderBorrowable_Shared == TRUE

\* decode_image takes &mut self and Iter<'a> keeps that &'a mut Decoder: the
\* Decoder can be borrowed again only when no iterator over it is live.
DecoderBorrowable == LiveIters = {}

\* A call: the operation, the iterator it was made on, the index the iterator
\* had and the count quirc_count() reported when it was made, and the result.
CallOf(op, i, index, count, ret) ==
    [op |-> op, iter |-> i, at |-> index, seen |-> count, ret |-> ret]

NoDecoderCall == CallOf("none", 0, 0, 0, Pending)

DecoderInit ==
    /\ decoder = "unborn"
    /\ destroy_calls = 0
    /\ engine = [count |-> 0, scans |-> 0, stable |-> TRUE]
    /\ calls = <<>>
    /\ iters = [i \in IterIds |-> NewIter]
    /\ last = NoDecoderCall
    /\ panicked = FALSE

DecoderFrame == PlatformUnchanged /\ UNCHANGED <<imageVars, codeVars, infoVars, utilVars>>

\* Decoder::new(): quirc_new() returns a handle or null.
DecoderNew ==
    /\ decoder = "unborn"
    /\ \E null \in BOOLEAN :
        /\ decoder' = IF null THEN "alloc_failed" ELSE "live"
        /\ last' = CallOf("new", 0, 0, 0, IF null THEN Err("AllocFailed") ELSE Ok(0))
    /\ UNCHANGED <<destroy_calls, engine, calls, iters, panicked>>
    /\ DecoderFrame

\* decode_image(&image); the engine's answers are drawn only where asked for.
DecodeImage ==
    /\ decoder = "live" /\ ~panicked
    /\ DecoderBorrowable
    /\ \E i \in IterIds : iters[i].state = "unborn"
    /\ \E image \in Images, resize_ret \in {0, -1}, buf_null \in BOOLEAN :
        LET r == Decoder_decode_image(image, resize_ret, buf_null)
            scanned == Len(r.calls) = 4
            i == NextIterId
        IN  /\ Len(r.calls) >= 2 \/ ~buf_null
            /\ Len(r.calls) >= 1 \/ resize_ret = 0
            /\ calls' = r.calls
            /\ last' = CallOf("decode_image", i, 0, 0, r.ret)
            /\ panicked' = (r.ret.tag = "Panic")
            /\ iters' = IF r.ret.tag = "Ok"
                        THEN [iters EXCEPT ![i] = [NewIter EXCEPT !.state = "live",
                                                                  !.index = r.ret.val.index]]
                        ELSE iters
            /\ IF scanned
               THEN \E count \in EngineCounts :
                        engine' = [count |-> count, scans |-> engine.scans + 1,
                                   stable |-> TRUE]
               ELSE engine' = engine
    /\ UNCHANGED <<decoder, destroy_calls>>
    /\ DecoderFrame

\* Iterator::next() on iterator i
IterNext ==
    /\ ~panicked
    /\ \E i \in LiveIters, raw \in ExtractedCodes :
        LET r == Iter_next(iters[i].index, engine.count, raw)
        IN  /\ iters[i].index <= MaxCount
            /\ iters' = [iters EXCEPT ![i].index = r.index,
                                      ![i].yielded = @ \o r.extracted,
                                      ![i].ended = @ \/ r.ret = NoItem]
            /\ last' = CallOf("next", i, iters[i].index, engine.count, r.ret)
            /\ panicked' = (r.ret.tag = "Panic")
    /\ UNCHANGED <<decoder, destroy_calls, engine, calls>>
    /\ DecoderFrame

\* Iterator::size_hint() on iterator i
IterSizeHint ==
    /\ ~panicked
    /\ \E i \in LiveIters :
        LET r == Iter_size_hint(iters[i].index, engine.count)
        IN  /\ last' = CallOf("size_hint", i, iters[i].index, engine.count, r)
            /\ panicked' = (r.tag = "Panic")
    /\ UNCHANGED <<decoder, destroy_calls, engine, calls, iters>>
    /\ DecoderFrame

\* The iterator goes out of scope (Iter has no Drop of its own): the borrow
\* ends and its fields are gone.
IterDrop ==
    /\ \E i \in LiveIters : iters' = [iters EXCEPT ![i] = [NewIter EXCEPT !.state = "dropped"]]
    /\ UNCHANGED <<decoder, destroy_calls, engine, calls, last, panicked>>
    /\ DecoderFrame

\* The Decoder goes out of scope, normally or while a panic unwinds; no
\* iterator can outlive it.
DecoderDrop ==
    /\ decoder = "live"
    /\ DecoderBorrowable
    /\ decoder' = "dropped"
    /\ destroy_calls' = Decoder_drop(destroy_calls)
    /\ UNCHANGED <<engine, calls, iters, last, panicked>>
    /\ DecoderFrame

\* The engine is not trusted to keep quirc_count() constant between two calls
\* of an iteration: the count changes without a scan.
EngineCountChanges ==
    /\ decoder = "live" /\ ~panicked
    /\ LiveIters # {}
    /\ engine.stable
    /\ \E count \in EngineCounts :
        /\ count # engine.count
        /\ engine' = [engine EXCEPT !.count = count, !.stable = FALSE]
    /\ UNCHANGED <<decoder, destroy_calls, calls, iters, last, panicked>>
    /\ DecoderFrame

----------------------------------------------------------------------------
(* Specifications *)

InitImage ==
    PlatformInit /\ ImageInit /\ CodeIdleInit /\ InfoIdleInit /\ DecoderInit /\ UtilIdleInit
NextImage == ImageNew
SpecImage == InitImage /\ [][NextImage]_vars

InitCode ==
    PlatformInit /\ ImageIdleInit /\ CodeInit /\ InfoIdleInit /\ DecoderInit /\ UtilIdleInit
NextCode == FromRaw \/ CornerAt \/ Size \/ Bitmap \/ Get \/ BitAt \/ Decode
SpecCode == InitCode /\ [][NextCode]_vars

InitInfo ==
    PlatformInit /\ ImageIdleInit /\ CodeIdleInit /\ InfoInit /\ DecoderInit /\ UtilIdleInit
NextInfo == Version \/ MaskId \/ Eci \/ EccLevel \/ DataType \/ Payload
SpecInfo == InitInfo /\ [][NextInfo]_vars

InitInfoPair ==
    /\ PlatformInit /\ ImageIdleInit /\ CodeIdleInit /\ InfoPairInit /\ DecoderInit
    /\ UtilIdleInit
NextInfoPair == Eq \/ Hash
SpecInfoPair == InitInfoPair /\ [][NextInfoPair]_vars

Init ==
    PlatformInit /\ ImageIdleInit /\ CodeIdleInit /\ InfoIdleInit /\ DecoderInit /\ UtilIdleInit
Next ==
    \/ DecoderNew
    \/ DecodeImage
    \/ IterNext
    \/ IterSizeHint
    \/ IterDrop
    \/ DecoderDrop
    \/ EngineCountChanges
Spec == Init /\ [][Next]_vars

InitUtil ==
    PlatformInit /\ ImageIdleInit /\ CodeIdleInit /\ InfoIdleInit /\ DecoderInit /\ UtilInit
NextUtil == UsizeToInt \/ IntToUsize \/ UsizeToIntAndBack \/ IntToUsizeAndBack
SpecUtil == InitUtil /\ [][NextUtil]_vars

----------------------------------------------------------------------------
(* Claims *)

\* len = x * y over the integers, without forming the product.
ProductIs(len, x, y) ==
    IF x = 0 \/ y = 0 THEN len = 0
    ELSE len % x = 0 /\ len \div x = y

(* C3: Image::new(data, size) returns Ok iff data.len() is the mathematical
   product size.x * size.y, and SizeMismatch otherwise; it never panics and
   never compares against a wrapped product. *)
C3_ImageNewIffProduct ==
    image_out # Pending =>
        IF ProductIs(image_in.len, image_in.x, image_in.y)
        THEN image_out.tag = "Ok"
        ELSE image_out = Err("SizeMismatch")

(* C4: once QrCode::from_raw returned Ok, no accessor (corner accessors,
   size(), bitmap(), get()) panics. *)
C4_NoAccessorFailsAfterValidation ==
    (qrcode.tag = "Ok" /\ code_out.op \in {"corner_at", "size", "bitmap", "get"})
        => code_out.ret.tag = "Ok"

(* C5: on a validated QrCode, get(x, y) returns None iff x >= size or
   y >= size, and for every in-range coordinate returns Some(b), b being bit
   (y*size + x) mod 8, counted from the least significant bit, of byte
   (y*size + x) div 8 of the cell bitmap; bit_at panics exactly where get
   returns None. *)
C5_GetReturnsBitOrNone ==
    (qrcode.tag = "Ok" /\ code_out.op \in {"get", "bit_at"}) =>
        LET size == qrcode.val.size
            x == code_out.x
            y == code_out.y
            ret == code_out.ret
            \* the bit is compared where y*size + x lies inside the bitmap
            inside == size <= 177
            i == y * size + x
            b == (BufferByte(qrcode.val.cell_bitmap, i \div 8) \div Pow2(i % 8)) % 2 = 1
        IN  IF x >= size \/ y >= size
            THEN IF code_out.op = "get" THEN ret = Ok(None) ELSE ret.tag = "Panic"
            ELSE IF code_out.op = "get"
                 THEN ret.tag = "Ok" /\ ret.val.some /\ (inside => ret.val.v = b)
                 ELSE ret.tag = "Ok" /\ (inside => ret.val = b)

\* The kind the claim assigns to each integer the engine may return.
C6_Kind(c) ==
    CASE c = 1 -> "InvalidGridSize"
      [] c = 2 -> "InvalidVersion"
      [] c = 3 -> "FormatEcc"
      [] c = 4 -> "DataEcc"
      [] c = 5 -> "UnknownDataType"
      [] c = 6 -> "DataOverflow"
      [] c = 7 -> "DataUnderflow"
      [] OTHER -> "Unknown"

(* C6: decode() returns Ok(Info) iff the engine returned the success
   sentinel; for every other returned integer it returns
   Err(DecodingFailed(kind)) with the kind of that code, and Unknown for any
   integer that is no known code, values outside the declared range
   included. *)
C6_DecodeMapsEveryCode ==
    code_out.op = "decode" =>
        IF code_out.x = QUIRC_SUCCESS
        THEN code_out.ret.tag = "Ok"
        ELSE code_out.ret = Err([kind |-> "DecodingFailed", reason |-> C6_Kind(code_out.x)])

\* v clamped into lo..hi.
Clamp(v, lo, hi) == IF v < lo THEN lo ELSE IF v > hi THEN hi ELSE v

(* C7: payload() returns the first clamp(payload_len, 0, QUIRC_MAX_PAYLOAD)
   bytes of the payload buffer and exactly that many; a negative payload_len
   gives the empty slice. *)
C7_PayloadLengthIsClamped ==
    info_out.op = "payload" =>
        /\ info_out.ret.start = 0
        /\ info_out.ret.len = Clamp(raw_data.payload_len, 0, QUIRC_MAX_PAYLOAD)

(* C8: for every raw record, version() is the raw version clamped into 1..40,
   mask_id() the raw mask clamped into 0..7 and eci() the raw eci clamped into
   0..30; the narrowing to u8 neither wraps nor truncates. *)
C8_ScalarsAreClamped ==
    /\ info_out.op = "version" =>
            info_out.ret \in 1..40 /\ info_out.ret = Clamp(raw_data.version, 1, 40)
    /\ info_out.op = "mask_id" =>
            info_out.ret \in 0..7 /\ info_out.ret = Clamp(raw_data.mask, 0, 7)
    /\ info_out.op = "eci" =>
            info_out.ret \in 0..30 /\ info_out.ret = Clamp(raw_data.eci, 0, 30)

\* version() was called on a raw version that does not fit u8.
C8_Witness ==
    /\ info_out.op = "version"
    /\ raw_data.version > 255
    /\ info_out.ret = 40

(* C1: while the engine's count stays at the k >= 0 the scan left, next()
   yields exactly k items, the i-th being the extraction of engine index
   i (0..k-1 in increasing order, each once), and the call after the k-th
   returns None. *)
C1_IterationYieldsEachIndexOnce ==
    \A i \in LiveIters :
        (engine.stable /\ engine.count >= 0) =>
            LET it == iters[i]
                k == engine.count
            IN  /\ it.index <= k
                /\ it.yielded = [j \in 1..it.index |-> j - 1]
                /\ it.ended => Len(it.yielded) = k
                /\ (last.op = "next" /\ last.iter = i) =>
                        \/ last.ret.tag = "Some" /\ last.at < k /\ it.index = last.at + 1
                                /\ ~it.ended
                        \/ last.ret = NoItem /\ last.at = k /\ it.index = k

\* An iteration over MaxCount codes has yielded them all and returned None.
C1_Witness ==
    \E i \in LiveIters :
        /\ engine.stable /\ engine.count = MaxCount
        /\ iters[i].ended
        /\ iters[i].yielded = [j \in 1..MaxCount |-> j - 1]
        /\ last.op = "next" /\ last.ret = NoItem

(* C2: quirc_destroy is called on the handle of a Decoder that Decoder::new
   returned exactly once, when the Decoder is dropped, whatever was done with
   it in between; it is never called when Decoder::new failed with
   AllocFailed. *)
C2_DestroyExactlyOnce ==
    /\ destroy_calls <= 1
    /\ decoder = "dropped" <=> destroy_calls = 1
    /\ decoder = "alloc_failed" => destroy_calls = 0

\* A Decoder whose last decode_image failed with AllocFailed has been dropped.
C2_Witness ==
    /\ decoder = "dropped"
    /\ destroy_calls = 1
    /\ last.op = "decode_image"
    /\ last.ret = Err("AllocFailed")

(* C9 as claimed: for every count >= 0 and cursor >= 0, size_hint() returns
   (n, Some(n)) with n = max(count - cursor, 0). *)
C9_SizeHintAlwaysExact ==
    (last.op = "size_hint" /\ last.seen >= 0 /\ last.at >= 0) =>
        LET n == Max(last.seen - last.at, 0)
        IN  last.ret.tag = "Hint" /\ last.ret.val = <<n, Item(n)>>

(* C9, amended: for every count >= 0 and cursor >= 0, size_hint() returns
   (n, Some(n)) with n = count - cursor when 0 <= count - cursor <= usize::MAX,
   and (0, None) otherwise (a count below the cursor, or a difference that
   does not fit usize). *)
C9_SizeHintExactOrUnknown ==
    (last.op = "size_hint" /\ last.seen >= 0 /\ last.at >= 0) =>
        LET d == last.seen - last.at
        IN  /\ last.ret.tag = "Hint"
            /\ IF 0 <= d /\ d <= USIZE_MAX
               THEN last.ret.val = <<d, Item(d)>>
               ELSE last.ret.val = <<0, NoItem>>

\* size_hint() was called with the count below the cursor.
C9_Witness ==
    /\ last.op = "size_hint"
    /\ 0 <= last.seen /\ last.seen < last.at
    /\ last.ret.tag = "Hint"
    /\ last.ret.val = <<0, NoItem>>

(* C10: a Decoder never has more than one live iterator, and while an
   iterator over it is live no decode_image takes place: no resize, begin or
   end call is made and the engine runs no scan. *)
C10_ExclusiveIteration ==
    /\ [](Cardinality(LiveIters) <= 1)
    /\ [][LiveIters # {} =>
            /\ calls' = calls
            /\ engine'.scans = engine.scans
            /\ (last'.op = "decode_image" => last' = last)]_vars

\* A second iteration is under way, the first iterator having been dropped.
C10_Witness ==
    /\ Cardinality(LiveIters) = 1
    /\ engine.scans = 2
    /\ \E i \in IterIds : iters[i].state = "dropped"


\* The six accessor results of two records coincide.
SameAccessors(a, b) ==
    /\ <<Info_version(a), Info_mask_id(a), Info_eci(a)>>
         = <<Info_version(b), Info_mask_id(b), Info_eci(b)>>
    /\ <<Info_ecc_level(a), Info_data_type(a)>> = <<Info_ecc_level(b), Info_data_type(b)>>
    /\ Info_payload(a).len = Info_payload(b).len
    /\ \A k \in 0..(Info_payload(a).len - 1) :
           PayloadByte(a.payload, k) = PayloadByte(b.payload, k)

(* C11: two records compare equal exactly when their six accessor results
   coincide, and records whose accessor results coincide hash identically,
   whatever their raw fields and the payload bytes past the logical length. *)
C11_EqAndHashFollowAccessors ==
    /\ info_out.op = "eq" => (info_out.ret <=> SameAccessors(raw_data, raw_other))
    /\ info_out.op = "hash" => (SameAccessors(raw_data, raw_other) => info_out.ret)

\* Equal although the raw versions and the payload arrays differ.
C11_Witness ==
    /\ info_out.op = "eq"
    /\ info_out.ret
    /\ raw_data.version # raw_other.version
    /\ raw_data.payload # raw_other.payload


\* The order in which decode_image calls the engine.
TransactionOrder == <<"quirc_resize", "quirc_begin", "copy_nonoverlapping", "quirc_end">>

CallNames(cs) == [k \in 1..Len(cs) |-> cs[k].f]

IsPrefix(s, t) == Len(s) <= Len(t) /\ \A k \in 1..Len(s) : s[k] = t[k]

(* C12: the engine calls of a decode_image are a prefix of resize, begin,
   copy, end; all four are made exactly when it returns an iterator, whose
   cursor is 0; a dimension above INT_MAX gives IntOverflow without any engine
   call, and a failing resize gives AllocFailed with resize as the only call. *)
C12_DecodeImageIsOneTransaction ==
    /\ last.op = "decode_image" =>
        /\ IsPrefix(CallNames(calls), TransactionOrder)
        /\ Len(calls) = 4 <=> last.ret.tag = "Ok"
        /\ last.ret.tag = "Ok" =>
               last.ret.val.index = 0 /\ iters[last.iter].index = 0
        /\ last.ret = Err("IntOverflow") => calls = <<>>
        /\ last.ret = Err("AllocFailed") => CallNames(calls) = <<"quirc_resize">>
    /\ \A image \in Images, resize_ret \in {0, -1}, buf_null \in BOOLEAN :
        LET r == Decoder_decode_image(image, resize_ret, buf_null)
        IN  IF image.x > INT_MAX \/ image.y > INT_MAX
            THEN r = [ret |-> Err("IntOverflow"), calls |-> <<>>]
            ELSE resize_ret # 0 =>
                    /\ r.ret = Err("AllocFailed")
                    /\ CallNames(r.calls) = <<"quirc_resize">>

\* A decode_image that stopped at the failing resize.
C12_Witness ==
    /\ last.op = "decode_image"
    /\ last.ret = Err("AllocFailed")
    /\ Len(calls) = 1

(* C13: a decode_image that reaches the copy copies exactly width * height
   bytes, for the width and height it passed to quirc_resize. *)
C13_CopyFillsTheScanBuffer ==
    (last.op = "decode_image" /\ Len(calls) >= 3) =>
        calls[3].a = calls[1].a * calls[1].b


(* C14: once a next() on an iterator has returned None, every later next()
   on it returns None, extracts nothing and leaves the cursor where it was,
   whatever the engine's count has become. *)
C14_TerminationIsPermanent ==
    [][\A i \in IterIds :
        ( /\ iters[i].state = "live" /\ iters[i].ended
          /\ iters'[i].state = "live"
          /\ last'.op = "next" /\ last'.iter = i
          /\ <<iters, last, panicked>>' # <<iters, last, panicked>> )
        => /\ last'.ret = NoItem
           /\ iters'[i].index = iters[i].index
           /\ iters'[i].yielded = iters[i].yielded]_vars


(* C15: usize_to_int(n) is Ok(n) when n <= INT_MAX and int_to_usize(m) is
   Ok(m) when 0 <= m <= usize::MAX, each is IntOverflow otherwise, and an
   integer that both types hold comes back unchanged from either round trip,
   whichever of the two types is the wider. *)
C15_ConversionsAreExactPartialInverses ==
    LET n == conv_in.n
        exact == IF conv_out.ret.tag = "Ok" THEN conv_out.ret = Ok(n)
                 ELSE conv_out.ret = Err("IntOverflow")
        inBoth == 0 <= n /\ n <= INT_MAX /\ n <= USIZE_MAX
    IN  /\ conv_out.op = "usize_to_int" =>
            exact /\ (conv_out.ret.tag = "Ok" <=> (0 <= n /\ n <= INT_MAX))
        /\ conv_out.op = "int_to_usize" =>
            exact /\ (conv_out.ret.tag = "Ok" <=> (0 <= n /\ n <= USIZE_MAX))
        /\ conv_out.op \in {"usize_to_int_and_back", "int_to_usize_and_back"} =>
            exact /\ (conv_out.ret.tag = "Ok" <=> inBoth)

\* INT_MAX itself, held in a usize wider than c_int, made the round trip.
C15_Witness ==
    /\ usize_bits > int_bits
    /\ conv_out.op = "usize_to_int_and_back"
    /\ conv_in.n = INT_MAX
    /\ conv_out.ret = Ok(INT_MAX)


\* The step just taken is a next() on iterator i that returned an item.
YieldedNow(i) ==
    /\ last'.op = "next" /\ last'.iter = i
    /\ last'.ret.tag = "Some"
    /\ last'.at = iters[i].index

\* next() at the indices 0, INT_MAX - 1 and INT_MAX, for every count the
\* engine may report: the new index is within 0..INT_MAX, and the addition
\* neither panics nor wraps.
NextNeverOverflows ==
    \A index \in {0, INT_MAX - 1, INT_MAX}, count \in EngineCounts, raw \in ExtractedCodes :
        LET r == Iter_next(index, count, raw)
        IN  /\ r.index \in 0..INT_MAX
            /\ r.index = IF r.ret.tag = "Some" THEN index + 1 ELSE index
            /\ r.ret.tag = "Panic" => count < 0

(* C16: the cursor of every iterator is within 0..INT_MAX; it is 0 when
   decode_image returns the iterator, a next() that yields an item adds
   exactly 1 to it and no other step changes it, and that addition cannot
   overflow c_int. *)
C16_CursorStaysInRange ==
    /\ [](/\ \A i \in IterIds : iters[i].index \in 0..INT_MAX
          /\ (last.op = "decode_image" /\ last.ret.tag = "Ok")
                => iters[last.iter].index = 0
          /\ NextNeverOverflows)
    /\ [][\A i \in IterIds :
            (iters[i].state = "live" /\ iters'[i].state = "live") =>
                iters'[i].index = IF YieldedNow(i) THEN iters[i].index + 1
                                  ELSE iters[i].index]_vars

\* The cursor after a second item was yielded.
C16_Witness ==
    /\ last.op = "next" /\ last.ret.tag = "Some"
    /\ last.at = 1
    /\ iters[last.iter].state = "live"
    /\ iters[last.iter].index = 2

=============================================================================
